---- MODULE Spec2Model ----
(***************************************************************************)
(* Royalty Router and Superfan Pass approval programs (PyTeal, TEAL v8).   *)
(*                                                                         *)
(* Each approval program is evaluated as a whole for one application call: *)
(* the call either approves, and its global/local writes and inner         *)
(* payments take effect, or it rejects and nothing takes effect.           *)
(*                                                                         *)
(* uint64 values are modelled by words of UintBits bits: an addition, a    *)
(* subtraction or a WideRatio whose result does not fit the word makes the *)
(* program fail, as the AVM does at 64 bits.                               *)
(***************************************************************************)
EXTENDS Integers, Sequences, FiniteSets, TLC

\* ------------------------------------------------------------------ bounds
UintBits == 21
MaxSteps == 4
SMaxSteps == 5

MaxUint == 2^UintBits - 1

\* ------------------------------------------------------- AVM value helpers
\* Failure of an arithmetic opcode.
Err == -1

\* A byte string: its length, its content as text, and its big-endian value.
Bytes(s, l) == [len |-> l, s |-> s, n |-> 0]
\* An 8-byte big-endian encoding of v (what the scripts pass for a uint64).
U64(v) == [len |-> 8, s |-> "", n |-> v]
\* A wider encoding of v, which Btoi cannot convert.
U72(v) == [len |-> 9, s |-> "", n |-> v]
\* A 32-byte account address.
Addr(a) == [len |-> 32, s |-> a, n |-> 0]

ZeroAddr == Addr("ZERO")
AppAddr == Addr("APP")

\* btoi: fails on more than 8 bytes, else the big-endian value.
Btoi(b) == IF b.len > 8 THEN Err ELSE b.n

\* Variant: an addition that wraps around instead of failing.
AddU_wrap(a, b) == IF a = Err \/ b = Err THEN Err ELSE (a + b) % (MaxUint + 1)

\* uint64 `+`: fails on overflow.
AddU(a, b) == IF a = Err \/ b = Err THEN Err
              ELSE IF a + b > MaxUint THEN Err ELSE a + b

\* Variant: a subtraction that wraps around instead of failing.
SubU_wrap(a, b) == IF a = Err \/ b = Err THEN Err ELSE (a - b) % (MaxUint + 1)

\* uint64 `-`: fails on underflow.
SubU(a, b) == IF a = Err \/ b = Err THEN Err
              ELSE IF b > a THEN Err ELSE a - b

\* floor(a * b / d), the product taken at full width.  The quotient is
\* assembled from the quotients and remainders of a and b by d so that no
\* intermediate exceeds the range of the checker's integers:
\*   a*b = (qa*d + ra)*b = qa*b*d + ra*(qb*d + rb)
MulDivFloor(a, b, d) ==
    LET qa == a \div d
        ra == a % d
        qb == b \div d
        rb == b % d
    IN  qa * b + ra * qb + (ra * rb) \div d

\* Variant: a ratio rounded up instead of down.
WideRatio_ceil(a, b, d) ==
    IF a = Err \/ b = Err THEN Err
    ELSE LET q == MulDivFloor(a, b, d)
             c == IF ((a % d) * (b % d)) % d = 0 THEN q ELSE q + 1
         IN  IF c > MaxUint THEN Err ELSE c

\* WideRatio([a, b], [d]): fails when the quotient does not fit a uint64.
WideRatio(a, b, d) ==
    IF a = Err \/ b = Err THEN Err
    ELSE LET q == MulDivFloor(a, b, d)
         IN  IF q > MaxUint THEN Err ELSE q

\* ---------------------------------------------------------------- Router
VARIABLES
    rCreated,     \* the Router application exists
    rCreator,     \* Global.creator_address()
    rGlobal,      \* the Router's global state
    appBalance,   \* balance of the Router's application account
    rLast,        \* the last Router call: its input and its outcome
    rSteps,       \* number of Router steps taken
    rOptedIn,     \* accounts opted in to the Router
    sCreated,     \* the Superfan application exists
    sGlobal,      \* the Superfan's global state
    sLocal,       \* the Superfan's local state, per account
    sLast,        \* the last Superfan call: its input and its outcome
    sSteps        \* number of Superfan steps taken

rvars == <<rCreated, rCreator, rGlobal, appBalance, rLast, rSteps, rOptedIn>>
svars == <<sCreated, sGlobal, sLocal, sLast, sSteps>>
vars == <<rCreated, rCreator, rGlobal, appBalance, rLast, rSteps, rOptedIn,
          sCreated, sGlobal, sLocal, sLast, sSteps>>

MinTxnFee == 1000
BpsDenom == 10000

\* Global state of an application that stored nothing.
NoGlobal == [p1 |-> ZeroAddr, p2 |-> ZeroAddr, p3 |-> ZeroAddr,
             bps1 |-> 0, bps2 |-> 0, bps3 |-> 0,
             roybps |-> 0, asa |-> 0, seller |-> ZeroAddr]

\* Outcome of evaluating a program: approved or not, the global state and
\* the application balance it leaves, and the inner payments it submitted.
\* attempted lists the inner payments submitted before the evaluation ended
\* (those of a failed evaluation are rolled back with it) and why names
\* what ended a failed evaluation.
Reject(gs, bal) ==
    [ok |-> FALSE, global |-> gs, bal |-> bal, pays |-> <<>>,
     attempted |-> <<>>, why |-> "failed"]
Accept(gs, bal, pays) ==
    [ok |-> TRUE, global |-> gs, bal |-> bal, pays |-> pays,
     attempted |-> pays, why |-> "none"]
\* A failure inside the payments r, after the assertions have passed.
RejectIn(gs, bal, r) ==
    [Reject(gs, bal) EXCEPT !.attempted = r.pays, !.why = r.why]

\* Variant: the first and the last argument are stored under each other's key.
router_on_create_swapped(tx, bal) ==
    LET a == tx.application_args
    IN  IF Len(a) # 9 THEN Reject(NoGlobal, bal)
        ELSE IF \E i \in 4..8 : Btoi(a[i]) = Err THEN Reject(NoGlobal, bal)
        ELSE Accept([p1 |-> a[9], p2 |-> a[2], p3 |-> a[3],
                     bps1 |-> Btoi(a[4]), bps2 |-> Btoi(a[5]),
                     bps3 |-> Btoi(a[6]), roybps |-> Btoi(a[7]),
                     asa |-> Btoi(a[8]), seller |-> a[1]], bal, <<>>)

\* on_create: nine arguments, stored in order; Btoi on arguments 3..7.
router_on_create(tx, bal) ==
    LET a == tx.application_args
    IN  IF Len(a) # 9 THEN Reject(NoGlobal, bal)
        ELSE IF \E i \in 4..8 : Btoi(a[i]) = Err THEN Reject(NoGlobal, bal)
        ELSE Accept([p1 |-> a[1], p2 |-> a[2], p3 |-> a[3],
                     bps1 |-> Btoi(a[4]), bps2 |-> Btoi(a[5]),
                     bps3 |-> Btoi(a[6]), roybps |-> Btoi(a[7]),
                     asa |-> Btoi(a[8]), seller |-> a[9]], bal, <<>>)

\* valid_bps: (BPS1 + BPS2) + BPS3 <= 10000; Err when an addition overflows.
valid_bps(gs) ==
    LET sum == AddU(AddU(gs.bps1, gs.bps2), gs.bps3)
    IN  IF sum = Err THEN Err ELSE IF sum <= BpsDenom THEN 1 ELSE 0

\* send_payment, repeated over a list of (receiver, amount): each inner
\* payment is debited from the application account when it is submitted and
\* fails the program when the account cannot cover it or the receiver is
\* not an address.
RECURSIVE send_payments(_, _, _)
send_payments(bal, todo, done) ==
    IF todo = <<>> THEN [ok |-> TRUE, bal |-> bal, pays |-> done, why |-> "none"]
    ELSE LET p == Head(todo)
         IN  IF p.amount = Err \/ p.receiver.len # 32 \/ p.amount > bal
             THEN [ok |-> FALSE, bal |-> bal, pays |-> done,
                   why |-> IF p.receiver.len # 32 THEN "receiver"
                           ELSE IF p.amount = Err THEN "amount"
                           ELSE "balance"]
             ELSE send_payments(bal - p.amount, Tail(todo),
                                Append(done, [receiver |-> p.receiver,
                                              amount |-> p.amount,
                                              fee |-> 0]))

\* Variant: the asset amount of the transfer is not checked.
buy_asserts_no_amount(gs, tx) ==
    /\ valid_bps(gs) = 1
    /\ tx.group_size = 3
    /\ tx.group_index = 0
    /\ tx.fee >= MinTxnFee * 3
    /\ tx.gtxn[1].type_enum = "pay"
    /\ tx.gtxn[1].receiver = AppAddr
    /\ tx.gtxn[2].type_enum = "axfer"
    /\ tx.gtxn[2].xfer_asset = gs.asa
    /\ tx.gtxn[2].sender = gs.seller
    /\ tx.gtxn[2].asset_receiver = tx.gtxn[1].sender

\* Variant: the hardening assertions of the Developer Tips are added.
buy_asserts_hardened(gs, tx) ==
    /\ valid_bps(gs) = 1
    /\ tx.group_size = 3
    /\ tx.group_index = 0
    /\ tx.fee >= MinTxnFee * 3
    /\ tx.gtxn[1].type_enum = "pay"
    /\ tx.gtxn[1].receiver = AppAddr
    /\ tx.gtxn[1].close_remainder_to = ZeroAddr
    /\ tx.gtxn[1].rekey_to = ZeroAddr
    /\ tx.gtxn[2].type_enum = "axfer"
    /\ tx.gtxn[2].xfer_asset = gs.asa
    /\ tx.gtxn[2].asset_amount = 1
    /\ tx.gtxn[2].sender = gs.seller
    /\ tx.gtxn[2].asset_receiver = tx.gtxn[1].sender
    /\ tx.gtxn[2].asset_close_to = ZeroAddr
    /\ tx.gtxn[2].rekey_to = ZeroAddr

\* Variant: the receiver of the asset is not compared with the payer.
buy_asserts_no_symmetry(gs, tx) ==
    /\ valid_bps(gs) = 1
    /\ tx.group_size = 3
    /\ tx.group_index = 0
    /\ tx.fee >= MinTxnFee * 3
    /\ tx.gtxn[1].type_enum = "pay"
    /\ tx.gtxn[1].receiver = AppAddr
    /\ tx.gtxn[2].type_enum = "axfer"
    /\ tx.gtxn[2].xfer_asset = gs.asa
    /\ tx.gtxn[2].asset_amount = 1
    /\ tx.gtxn[2].sender = gs.seller

\* The assertions of buy that precede the three payments.
buy_asserts(gs, tx) ==
    /\ valid_bps(gs) = 1
    /\ tx.group_size = 3
    /\ tx.group_index = 0
    /\ tx.fee >= MinTxnFee * 3
    /\ tx.gtxn[1].type_enum = "pay"
    /\ tx.gtxn[1].receiver = AppAddr
    /\ tx.gtxn[2].type_enum = "axfer"
    /\ tx.gtxn[2].xfer_asset = gs.asa
    /\ tx.gtxn[2].asset_amount = 1
    /\ tx.gtxn[2].sender = gs.seller
    /\ tx.gtxn[2].asset_receiver = tx.gtxn[1].sender

buy(gs, bal, tx) ==
    IF ~buy_asserts(gs, tx) THEN Reject(gs, bal)
    ELSE LET pay_amt == tx.gtxn[1].amount
             r == send_payments(bal,
                    << [receiver |-> gs.p1,
                        amount |-> WideRatio(pay_amt, gs.bps1, BpsDenom)],
                       [receiver |-> gs.p2,
                        amount |-> WideRatio(pay_amt, gs.bps2, BpsDenom)],
                       [receiver |-> gs.p3,
                        amount |-> WideRatio(pay_amt, gs.bps3, BpsDenom)] >>,
                    <<>>)
         IN  IF r.ok THEN Accept(gs, r.bal, r.pays) ELSE RejectIn(gs, bal, r)

\* Variant: resale asks for the fee of one transaction only.
resale_asserts_lowfee(gs, tx) ==
    /\ tx.group_size = 3
    /\ tx.group_index = 0
    /\ tx.fee >= MinTxnFee
    /\ tx.gtxn[1].type_enum = "pay"
    /\ tx.gtxn[1].receiver = AppAddr
    /\ tx.gtxn[2].type_enum = "axfer"
    /\ tx.gtxn[2].xfer_asset = gs.asa
    /\ tx.gtxn[2].asset_amount = 1
    /\ tx.gtxn[2].asset_receiver = tx.gtxn[1].sender

\* The assertions of resale that precede the royalty computation.
resale_asserts(gs, tx) ==
    /\ tx.group_size = 3
    /\ tx.group_index = 0
    /\ tx.fee >= MinTxnFee * 2
    /\ tx.gtxn[1].type_enum = "pay"
    /\ tx.gtxn[1].receiver = AppAddr
    /\ tx.gtxn[2].type_enum = "axfer"
    /\ tx.gtxn[2].xfer_asset = gs.asa
    /\ tx.gtxn[2].asset_amount = 1
    /\ tx.gtxn[2].asset_receiver = tx.gtxn[1].sender

\* Variant: the remainder is paid to the stored SELLER.
resale_to_stored_seller(gs, bal, tx) ==
    IF ~resale_asserts(gs, tx) THEN Reject(gs, bal)
    ELSE LET pay_amt == tx.gtxn[1].amount
             roy_amt == WideRatio(pay_amt, gs.roybps, BpsDenom)
             seller_amt == SubU(pay_amt, roy_amt)
         IN  IF roy_amt = Err \/ seller_amt = Err THEN Reject(gs, bal)
             ELSE LET r == send_payments(bal,
                             << [receiver |-> gs.p1, amount |-> roy_amt],
                                [receiver |-> gs.seller,
                                 amount |-> seller_amt] >>,
                             <<>>)
                  IN  IF r.ok THEN Accept(gs, r.bal, r.pays)
                      ELSE RejectIn(gs, bal, r)

resale(gs, bal, tx) ==
    IF ~resale_asserts(gs, tx) THEN Reject(gs, bal)
    ELSE LET pay_amt == tx.gtxn[1].amount
             roy_amt == WideRatio(pay_amt, gs.roybps, BpsDenom)
             seller_amt == SubU(pay_amt, roy_amt)
         IN  IF roy_amt = Err \/ seller_amt = Err THEN Reject(gs, bal)
             ELSE LET r == send_payments(bal,
                             << [receiver |-> gs.p1, amount |-> roy_amt],
                                [receiver |-> tx.gtxn[2].sender,
                                 amount |-> seller_amt] >>,
                             <<>>)
                  IN  IF r.ok THEN Accept(gs, r.bal, r.pays)
                      ELSE RejectIn(gs, bal, r)

\* handle_noop: Cond on the first argument; no match, or no argument, fails.
\* Variant: a call that matches no selector falls through to approval.
router_handle_noop_fallthrough(gs, bal, tx) ==
    IF Len(tx.application_args) = 0 THEN Reject(gs, bal)
    ELSE IF tx.application_args[1] = Bytes("buy", 3) THEN buy(gs, bal, tx)
    ELSE IF tx.application_args[1] = Bytes("resale", 6) THEN resale(gs, bal, tx)
    ELSE Accept(gs, bal, <<>>)

\* handle_noop: Cond on the first argument; no matching arm fails.
router_handle_noop(gs, bal, tx) ==
    IF Len(tx.application_args) = 0 THEN Reject(gs, bal)
    ELSE IF tx.application_args[1] = Bytes("buy", 3) THEN buy(gs, bal, tx)
    ELSE IF tx.application_args[1] = Bytes("resale", 6) THEN resale(gs, bal, tx)
    ELSE Reject(gs, bal)

\* Variant: update and delete are gated on the stored SELLER.
router_program_seller_gate(gs, bal, creator, tx) ==
    IF tx.application_id = 0 THEN router_on_create(tx, bal)
    ELSE IF tx.on_completion = "NoOp" THEN router_handle_noop(gs, bal, tx)
    ELSE IF tx.on_completion = "DeleteApplication"
         THEN (IF tx.sender = gs.seller THEN Accept(gs, bal, <<>>)
               ELSE Reject(gs, bal))
    ELSE IF tx.on_completion = "UpdateApplication"
         THEN (IF tx.sender = gs.seller THEN Accept(gs, bal, <<>>)
               ELSE Reject(gs, bal))
    ELSE IF tx.on_completion = "CloseOut" THEN Accept(gs, bal, <<>>)
    ELSE IF tx.on_completion = "OptIn" THEN Accept(gs, bal, <<>>)
    ELSE Reject(gs, bal)

\* Variant: an opt-in or close-out that carries arguments is dispatched on
\* its first argument.
router_program_optin_dispatch(gs, bal, creator, tx) ==
    IF tx.application_id = 0 THEN router_on_create(tx, bal)
    ELSE IF tx.on_completion = "NoOp" \/ tx.application_args # <<>>
         THEN router_handle_noop(gs, bal, tx)
    ELSE IF tx.on_completion = "DeleteApplication"
         THEN (IF tx.sender = creator THEN Accept(gs, bal, <<>>)
               ELSE Reject(gs, bal))
    ELSE IF tx.on_completion = "UpdateApplication"
         THEN (IF tx.sender = creator THEN Accept(gs, bal, <<>>)
               ELSE Reject(gs, bal))
    ELSE IF tx.on_completion = "CloseOut" THEN Accept(gs, bal, <<>>)
    ELSE IF tx.on_completion = "OptIn" THEN Accept(gs, bal, <<>>)
    ELSE Reject(gs, bal)

\* program: Cond on creation, then on the on-completion action.
router_program(gs, bal, creator, tx) ==
    IF tx.application_id = 0 THEN router_on_create(tx, bal)
    ELSE IF tx.on_completion = "NoOp" THEN router_handle_noop(gs, bal, tx)
    ELSE IF tx.on_completion = "DeleteApplication"
         THEN (IF tx.sender = creator THEN Accept(gs, bal, <<>>)
               ELSE Reject(gs, bal))
    ELSE IF tx.on_completion = "UpdateApplication"
         THEN (IF tx.sender = creator THEN Accept(gs, bal, <<>>)
               ELSE Reject(gs, bal))
    ELSE IF tx.on_completion = "CloseOut" THEN Accept(gs, bal, <<>>)
    ELSE IF tx.on_completion = "OptIn" THEN Accept(gs, bal, <<>>)
    ELSE Reject(gs, bal)

\* ------------------------------------------------------- Router: inputs
\* A payment transaction of a group, with default close-to and rekey-to.
PayTxn(snd, rcv, amt) ==
    [type_enum |-> "pay", sender |-> snd, receiver |-> rcv, amount |-> amt,
     close_remainder_to |-> ZeroAddr, rekey_to |-> ZeroAddr,
     xfer_asset |-> 0, asset_amount |-> 0, asset_receiver |-> ZeroAddr,
     asset_close_to |-> ZeroAddr, asset_sender |-> ZeroAddr]

\* An asset-transfer transaction of a group, with default close-to,
\* rekey-to and clawback sender.
AxferTxn(snd, rcv, asset, amt) ==
    [type_enum |-> "axfer", sender |-> snd, receiver |-> ZeroAddr, amount |-> 0,
     close_remainder_to |-> ZeroAddr, rekey_to |-> ZeroAddr,
     xfer_asset |-> asset, asset_amount |-> amt, asset_receiver |-> rcv,
     asset_close_to |-> ZeroAddr, asset_sender |-> ZeroAddr]

\* The application call at the head of the group the scripts build:
\* [AppCall(selector), Pay(buyer -> app, price), Axfer(seller -> buyer, 1)].
RouterGroup(sel, buyer, seller, price, fee, asset) ==
    [application_id |-> 1, on_completion |-> "NoOp", sender |-> Addr(buyer),
     application_args |-> <<sel>>, fee |-> fee,
     group_size |-> 3, group_index |-> 0,
     gtxn |-> << PayTxn(Addr(buyer), AppAddr, price),
                 AxferTxn(Addr(seller), Addr(buyer), asset, 1) >>]

TicketAsa == 7
Prices == {0, 3, 10, 1400, 10001, 1000000, 1000001, 1200000, MaxUint}
Sellers == {"SEL", "HOL"}
Fees == {MinTxnFee * 4}

\* Groups of the expected shape.
ShapedGroups(sel) ==
    { RouterGroup(sel, "BUY", s, a, f, TicketAsa) :
        s \in Sellers, a \in Prices, f \in Fees }

\* One field of a shaped group changed.
Deviations(g) ==
    { [g EXCEPT !.group_size = 2],
      [g EXCEPT !.group_size = 4],
      [g EXCEPT !.group_index = 1, !.gtxn[1].type_enum = "appl"],
      [g EXCEPT !.fee = MinTxnFee],
      [g EXCEPT !.fee = MinTxnFee * 2],
      [g EXCEPT !.fee = MinTxnFee * 3],
      [g EXCEPT !.gtxn[1].type_enum = "axfer"],
      [g EXCEPT !.gtxn[1].receiver = Addr("SEL")],
      [g EXCEPT !.gtxn[2].type_enum = "pay"],
      [g EXCEPT !.gtxn[2].xfer_asset = TicketAsa + 1],
      [g EXCEPT !.gtxn[2].asset_amount = 0],
      [g EXCEPT !.gtxn[2].asset_amount = 2],
      [g EXCEPT !.gtxn[2].asset_receiver = Addr("HOL")],
      [g EXCEPT !.gtxn[1].close_remainder_to = Addr("EVE")],
      [g EXCEPT !.gtxn[1].rekey_to = Addr("EVE")],
      [g EXCEPT !.gtxn[2].asset_close_to = Addr("EVE")],
      [g EXCEPT !.gtxn[2].rekey_to = Addr("EVE")] }

DeviatedPrices == {1000000}

RouterCalls(sel) ==
    ShapedGroups(sel) \cup
    UNION { Deviations(g) :
              g \in { RouterGroup(sel, "BUY", "SEL", a, MinTxnFee * 4, TicketAsa) :
                        a \in DeviatedPrices } }

\* Creation arguments in the order on_create reads them.
CreateArgs(p1, p2, p3, b1, b2, b3, roy, asa, seller) ==
    << Addr(p1), Addr(p2), Addr(p3), U64(b1), U64(b2), U64(b3),
       U64(roy), U64(asa), Addr(seller) >>

BpsTriples ==
    { <<7000, 2500, 500>>, <<3333, 3333, 3333>>, <<5000, 0, 0>>,
      <<5000, 5000, 1>>, <<10000, 10000, 10000>>,
      <<MaxUint, 1, 0>>, <<MaxUint, MaxUint, 2>> }
RoyChoices == {0, 500, 10000, 10001, 20000, MaxUint}

RouterCreateArgs ==
    { CreateArgs("ART", "VEN", "DAO", t[1], t[2], t[3], 500, TicketAsa, "SEL") :
        t \in BpsTriples }
    \cup
    { CreateArgs("ART", "VEN", "DAO", 7000, 2500, 500, r, TicketAsa, "SEL") :
        r \in RoyChoices }
    \cup
    { \* the artist is also the primary seller
      CreateArgs("SEL", "VEN", "DAO", 7000, 2500, 500, 500, TicketAsa, "SEL"),
      \* no asset id
      CreateArgs("ART", "VEN", "DAO", 7000, 2500, 500, 500, 0, "SEL"),
      \* the addresses as the 58 characters of their text form, as
      \* deploy_router_app of the operator console encodes them
      [CreateArgs("ART", "VEN", "DAO", 7000, 2500, 500, 500, TicketAsa, "SEL")
         EXCEPT ![1] = Bytes("ART", 58), ![2] = Bytes("VEN", 58),
                ![3] = Bytes("DAO", 58), ![9] = Bytes("SEL", 58)],
      \* only the third payee as the 58 characters of its text form
      [CreateArgs("ART", "VEN", "DAO", 7000, 2500, 500, 500, TicketAsa, "SEL")
         EXCEPT ![3] = Bytes("DAO", 58)],
      \* eight arguments
      SubSeq(CreateArgs("ART", "VEN", "DAO", 7000, 2500, 500, 500, TicketAsa, "SEL"), 1, 8),
      \* a basis-point argument wider than eight bytes
      [CreateArgs("ART", "VEN", "DAO", 7000, 2500, 500, 500, TicketAsa, "SEL")
         EXCEPT ![4] = U72(7000)] }

FundAmounts == {1000, MaxUint}

NoTx == [application_id |-> 0, on_completion |-> "NoOp", sender |-> ZeroAddr,
         application_args |-> <<>>, fee |-> 0, group_size |-> 0,
         group_index |-> 0, gtxn |-> <<>>]

\* ------------------------------------------------------ Router: actions
RouterRecord(kind, tx, r) ==
    [kind |-> kind, tx |-> tx, approved |-> r.ok, pays |-> r.pays,
     attempted |-> r.attempted, why |-> r.why,
     pre |-> [created |-> rCreated, global |-> rGlobal, bal |-> appBalance,
              opted |-> rOptedIn]]

\* An approved update replaces the approval program and an approved delete
\* removes the application: this program handles no later call.
RouterRetired ==
    rLast.kind \in {"update", "delete"} /\ rLast.approved

\* Application creation: runs on_create; the application exists, with the
\* sender as its creator, only when the program approves.
RouterCreate ==
    /\ ~rCreated
    /\ ~RouterRetired
    /\ rSteps < MaxSteps
    /\ \E args \in RouterCreateArgs :
         LET tx == [NoTx EXCEPT !.sender = Addr("CRE"), !.application_args = args,
                                !.fee = MinTxnFee, !.group_size = 1]
             r == router_program(NoGlobal, 0, ZeroAddr, tx)
         IN  /\ rCreated' = r.ok
             /\ rCreator' = IF r.ok THEN tx.sender ELSE rCreator
             /\ rGlobal' = IF r.ok THEN r.global ELSE rGlobal
             /\ appBalance' = appBalance
             /\ rLast' = RouterRecord("create", tx, r)
    /\ rSteps' = rSteps + 1
    /\ UNCHANGED rOptedIn
    /\ UNCHANGED svars

\* A plain payment to the application account (pre-funding).
RouterFund ==
    /\ rCreated
    /\ ~RouterRetired
    /\ rSteps < MaxSteps
    /\ \E amt \in FundAmounts :
         /\ appBalance' = appBalance + amt
         /\ rLast' = RouterRecord("fund", NoTx, Accept(rGlobal, appBalance + amt, <<>>))
    /\ rSteps' = rSteps + 1
    /\ UNCHANGED <<rCreated, rCreator, rGlobal, rOptedIn>>
    /\ UNCHANGED svars

\* A group headed by a NoOp call to the Router.  The call runs first, at
\* group index 0; when it approves, the group's payment to the application
\* account is credited after it.
\* Variant: the group's payment is credited before the call runs.
RouterGroupCall_credit_first(kind, tx) ==
    LET credit == IF tx.gtxn[1].type_enum = "pay" /\ tx.gtxn[1].receiver = AppAddr
                  THEN tx.gtxn[1].amount ELSE 0
        r == router_program(rGlobal, appBalance + credit, rCreator, tx)
    IN  /\ rGlobal' = IF r.ok THEN r.global ELSE rGlobal
        /\ appBalance' = IF r.ok THEN r.bal ELSE appBalance
        /\ rLast' = RouterRecord(kind, tx, r)
        /\ rSteps' = rSteps + 1
        /\ UNCHANGED <<rCreated, rCreator, rOptedIn>>
        /\ UNCHANGED svars

\* Variant: the group's payment never reaches the application account.
RouterGroupCall_no_credit(kind, tx) ==
    LET r == router_program(rGlobal, appBalance, rCreator, tx)
    IN  /\ rGlobal' = IF r.ok THEN r.global ELSE rGlobal
        /\ appBalance' = IF r.ok THEN r.bal ELSE appBalance
        /\ rLast' = RouterRecord(kind, tx, r)
        /\ rSteps' = rSteps + 1
        /\ UNCHANGED <<rCreated, rCreator, rOptedIn>>
        /\ UNCHANGED svars

RouterGroupCall(kind, tx) ==
    LET r == router_program(rGlobal, appBalance, rCreator, tx)
        credit == IF tx.gtxn[1].type_enum = "pay" /\ tx.gtxn[1].receiver = AppAddr
                  THEN tx.gtxn[1].amount ELSE 0
    IN  /\ rGlobal' = IF r.ok THEN r.global ELSE rGlobal
        /\ appBalance' = IF r.ok THEN r.bal + credit ELSE appBalance
        /\ rLast' = RouterRecord(kind, tx, r)
        /\ rSteps' = rSteps + 1
        /\ UNCHANGED <<rCreated, rCreator, rOptedIn>>
        /\ UNCHANGED svars

RouterBuy ==
    /\ rCreated
    /\ ~RouterRetired
    /\ rSteps < MaxSteps
    /\ \E tx \in RouterCalls(Bytes("buy", 3)) : RouterGroupCall("buy", tx)

RouterResale ==
    /\ rCreated
    /\ ~RouterRetired
    /\ rSteps < MaxSteps
    /\ \E tx \in RouterCalls(Bytes("resale", 6)) : RouterGroupCall("resale", tx)

\* Selectors and argument lists that handle_noop does not recognise.
OtherSelectors == {<<>>, <<Bytes("refund", 6)>>, <<Bytes("Buy", 3)>>}

\* A group of the expected shape headed by a NoOp call whose arguments name
\* no entrypoint.
RouterOtherNoOp ==
    /\ rCreated
    /\ ~RouterRetired
    /\ rSteps < MaxSteps
    /\ \E args \in OtherSelectors, a \in DeviatedPrices :
         RouterGroupCall("noop",
            [RouterGroup(Bytes("buy", 3), "BUY", "SEL", a, MinTxnFee * 4, TicketAsa)
               EXCEPT !.application_args = args])

\* A single application call that is not a NoOp.
LifecycleTx(oc, snd, args) ==
    [NoTx EXCEPT !.application_id = 1, !.on_completion = oc,
                 !.sender = Addr(snd), !.application_args = args,
                 !.fee = MinTxnFee, !.group_size = 1]

LifecycleArgs == {<<>>, <<Bytes("buy", 3)>>}
ROptAccounts == {"BUY"}
LifecycleSenders == {"CRE", "SEL"}

RouterLifecycle(kind, tx, r) ==
    /\ rLast' = RouterRecord(kind, tx, r)
    /\ rSteps' = rSteps + 1
    /\ UNCHANGED <<rCreator, appBalance>>
    /\ UNCHANGED svars

\* Opt-in: the ledger rejects an opt-in by an account that is already
\* opted in, before the program runs.
RouterOptIn ==
    /\ rCreated
    /\ ~RouterRetired
    /\ rSteps < MaxSteps
    /\ \E a \in ROptAccounts, args \in LifecycleArgs :
         LET tx == LifecycleTx("OptIn", a, args)
             r == IF a \in rOptedIn THEN Reject(rGlobal, appBalance)
                  ELSE router_program(rGlobal, appBalance, rCreator, tx)
         IN  /\ rOptedIn' = IF r.ok THEN rOptedIn \cup {a} ELSE rOptedIn
             /\ rGlobal' = IF r.ok THEN r.global ELSE rGlobal
             /\ RouterLifecycle("optin", tx, r)
    /\ UNCHANGED rCreated

\* Close-out: the ledger rejects it for an account that is not opted in.
RouterCloseOut ==
    /\ rCreated
    /\ ~RouterRetired
    /\ rSteps < MaxSteps
    /\ \E a \in ROptAccounts, args \in LifecycleArgs :
         LET tx == LifecycleTx("CloseOut", a, args)
             r == IF a \notin rOptedIn THEN Reject(rGlobal, appBalance)
                  ELSE router_program(rGlobal, appBalance, rCreator, tx)
         IN  /\ rOptedIn' = IF r.ok THEN rOptedIn \ {a} ELSE rOptedIn
             /\ rGlobal' = IF r.ok THEN r.global ELSE rGlobal
             /\ RouterLifecycle("closeout", tx, r)
    /\ UNCHANGED rCreated

\* Update: when approved, the programs of the application are replaced and
\* its global state is kept.
RouterUpdate ==
    /\ rCreated
    /\ ~RouterRetired
    /\ rSteps < MaxSteps
    /\ \E snd \in LifecycleSenders, args \in LifecycleArgs :
         LET tx == LifecycleTx("UpdateApplication", snd, args)
             r == router_program(rGlobal, appBalance, rCreator, tx)
         IN  /\ rGlobal' = IF r.ok THEN r.global ELSE rGlobal
             /\ RouterLifecycle("update", tx, r)
    /\ UNCHANGED <<rCreated, rOptedIn>>

\* Delete: when approved, the application and its global state are removed.
RouterDelete ==
    /\ rCreated
    /\ ~RouterRetired
    /\ rSteps < MaxSteps
    /\ \E snd \in LifecycleSenders, args \in LifecycleArgs :
         LET tx == LifecycleTx("DeleteApplication", snd, args)
             r == router_program(rGlobal, appBalance, rCreator, tx)
         IN  /\ rCreated' = ~r.ok
             /\ rGlobal' = IF r.ok THEN NoGlobal ELSE rGlobal
             /\ RouterLifecycle("delete", tx, r)
    /\ UNCHANGED rOptedIn

RouterNext ==
    \/ RouterCreate \/ RouterFund \/ RouterBuy \/ RouterResale
    \/ RouterOtherNoOp \/ RouterOptIn \/ RouterCloseOut
    \/ RouterUpdate \/ RouterDelete

\* --------------------------------------------------------------- Superfan
SAccounts == {"ADM", "FAN", "EVE"}

NoLocal == [opted |-> FALSE, pts |-> 0, tier |-> 0]
NoAdmin == [admin |-> ZeroAddr]

SReject(gs, loc) == [ok |-> FALSE, global |-> gs, local |-> loc]
SAccept(gs, loc) == [ok |-> TRUE, global |-> gs, local |-> loc]

\* Txn.accounts[i]: entry 0 of the AVM's Accounts array is the sender of the
\* transaction and entries 1.. are the foreign accounts it lists.
TxnAccounts(tx, i) == IF i = 0 THEN tx.sender ELSE tx.accounts[i]

\* Txn.accounts.length(): the number of foreign accounts listed.
NumAccounts(tx) == Len(tx.accounts)

\* Variant: the sender of the creation call is stored as the admin.
superfan_on_create_sender(tx, loc) ==
    IF Len(tx.application_args) >= 1
    THEN SAccept([admin |-> tx.sender], loc)
    ELSE SReject(NoAdmin, loc)

\* on_create: at least one argument; the first is stored as the admin.
superfan_on_create(tx, loc) ==
    IF Len(tx.application_args) >= 1
    THEN SAccept([admin |-> tx.application_args[1]], loc)
    ELSE SReject(NoAdmin, loc)

\* Variant: any sender passes the admin check.
assert_only_admin_skip(gs, tx) == TRUE

\* assert_only_admin
assert_only_admin(gs, tx) == tx.sender = gs.admin

\* The account add_points credits.
add_points_target(tx) ==
    IF NumAccounts(tx) > 0 THEN TxnAccounts(tx, 0) ELSE tx.sender

\* Variant: an amount of 0 is accepted.
add_points_allow_zero(gs, loc, tx) ==
    IF ~assert_only_admin(gs, tx) THEN SReject(gs, loc)
    ELSE IF Len(tx.application_args) < 2 THEN SReject(gs, loc)
    ELSE LET points_to_add == Btoi(tx.application_args[2])
             target_acct == add_points_target(tx)
         IN  IF points_to_add = Err THEN SReject(gs, loc)
             ELSE IF ~loc[target_acct.s].opted THEN SReject(gs, loc)
             ELSE LET sum == AddU(loc[target_acct.s].pts, points_to_add)
                  IN  IF sum = Err THEN SReject(gs, loc)
                      ELSE SAccept(gs, [loc EXCEPT ![target_acct.s].pts = sum])

\* Variant: a grant also clears the tier of the account it credits.
add_points_clears_tier(gs, loc, tx) ==
    IF ~assert_only_admin(gs, tx) THEN SReject(gs, loc)
    ELSE IF Len(tx.application_args) < 2 THEN SReject(gs, loc)
    ELSE LET points_to_add == Btoi(tx.application_args[2])
             target_acct == add_points_target(tx)
         IN  IF points_to_add = Err THEN SReject(gs, loc)
             ELSE IF ~(points_to_add > 0) THEN SReject(gs, loc)
             ELSE IF ~loc[target_acct.s].opted THEN SReject(gs, loc)
             ELSE LET sum == AddU(loc[target_acct.s].pts, points_to_add)
                  IN  IF sum = Err THEN SReject(gs, loc)
                      ELSE SAccept(gs, [loc EXCEPT ![target_acct.s].pts = sum,
                                                   ![target_acct.s].tier = 0])

\* add_points: reading or writing the local state of an account that has
\* not opted in fails the program.
add_points(gs, loc, tx) ==
    IF ~assert_only_admin(gs, tx) THEN SReject(gs, loc)
    ELSE IF Len(tx.application_args) < 2 THEN SReject(gs, loc)
    ELSE LET points_to_add == Btoi(tx.application_args[2])
             target_acct == add_points_target(tx)
         IN  IF points_to_add = Err THEN SReject(gs, loc)
             ELSE IF ~(points_to_add > 0) THEN SReject(gs, loc)
             ELSE IF ~loc[target_acct.s].opted THEN SReject(gs, loc)
             ELSE LET sum == AddU(loc[target_acct.s].pts, points_to_add)
                  IN  IF sum = Err THEN SReject(gs, loc)
                      ELSE SAccept(gs, [loc EXCEPT ![target_acct.s].pts = sum])

\* Variant: the points check is off by one.
claim_tier_offbyone(gs, loc, tx) ==
    IF Len(tx.application_args) < 2 THEN SReject(gs, loc)
    ELSE LET threshold == Btoi(tx.application_args[2])
         IN  IF threshold = Err THEN SReject(gs, loc)
             ELSE IF ~(threshold > 0) THEN SReject(gs, loc)
             ELSE IF ~loc[tx.sender.s].opted THEN SReject(gs, loc)
             ELSE IF ~(loc[tx.sender.s].pts + 1 >= threshold) THEN SReject(gs, loc)
             ELSE SAccept(gs, [loc EXCEPT ![tx.sender.s].tier = threshold])

\* Variant: the tier only ever grows (the highest threshold claimed so far).
claim_tier_max(gs, loc, tx) ==
    IF Len(tx.application_args) < 2 THEN SReject(gs, loc)
    ELSE LET threshold == Btoi(tx.application_args[2])
             old == loc[tx.sender.s].tier
         IN  IF threshold = Err THEN SReject(gs, loc)
             ELSE IF ~(threshold > 0) THEN SReject(gs, loc)
             ELSE IF ~loc[tx.sender.s].opted THEN SReject(gs, loc)
             ELSE IF ~(loc[tx.sender.s].pts >= threshold) THEN SReject(gs, loc)
             ELSE SAccept(gs, [loc EXCEPT ![tx.sender.s].tier =
                                   IF old > threshold THEN old ELSE threshold])

\* claim_tier
claim_tier(gs, loc, tx) ==
    IF Len(tx.application_args) < 2 THEN SReject(gs, loc)
    ELSE LET threshold == Btoi(tx.application_args[2])
         IN  IF threshold = Err THEN SReject(gs, loc)
             ELSE IF ~(threshold > 0) THEN SReject(gs, loc)
             ELSE IF ~loc[tx.sender.s].opted THEN SReject(gs, loc)
             ELSE IF ~(loc[tx.sender.s].pts >= threshold) THEN SReject(gs, loc)
             ELSE SAccept(gs, [loc EXCEPT ![tx.sender.s].tier = threshold])

\* handle_optin: the ledger has allocated the sender's local state before
\* the program runs.
handle_optin(gs, loc, tx) ==
    SAccept(gs, [loc EXCEPT ![tx.sender.s] = [opted |-> TRUE, pts |-> 0, tier |-> 0]])

superfan_handle_noop(gs, loc, tx) ==
    IF ~(Len(tx.application_args) >= 1) THEN SReject(gs, loc)
    ELSE IF tx.application_args[1] = Bytes("add_points", 10) THEN add_points(gs, loc, tx)
    ELSE IF tx.application_args[1] = Bytes("claim_tier", 10) THEN claim_tier(gs, loc, tx)
    ELSE SReject(gs, loc)

\* Variant: update and delete are not gated.
superfan_program_ungated(gs, loc, tx) ==
    IF tx.application_id = 0 THEN superfan_on_create(tx, loc)
    ELSE IF tx.on_completion = "OptIn" THEN handle_optin(gs, loc, tx)
    ELSE IF tx.on_completion = "CloseOut" THEN SAccept(gs, loc)
    ELSE IF tx.on_completion = "NoOp" THEN superfan_handle_noop(gs, loc, tx)
    ELSE IF tx.on_completion = "UpdateApplication" THEN SAccept(gs, loc)
    ELSE IF tx.on_completion = "DeleteApplication" THEN SAccept(gs, loc)
    ELSE SReject(gs, loc)

\* program: Cond on creation, then on the on-completion action.
superfan_program(gs, loc, tx) ==
    IF tx.application_id = 0 THEN superfan_on_create(tx, loc)
    ELSE IF tx.on_completion = "OptIn" THEN handle_optin(gs, loc, tx)
    ELSE IF tx.on_completion = "CloseOut" THEN SAccept(gs, loc)
    ELSE IF tx.on_completion = "NoOp" THEN superfan_handle_noop(gs, loc, tx)
    ELSE IF tx.on_completion = "UpdateApplication"
         THEN (IF tx.sender = gs.admin THEN SAccept(gs, loc) ELSE SReject(gs, loc))
    ELSE IF tx.on_completion = "DeleteApplication"
         THEN (IF tx.sender = gs.admin THEN SAccept(gs, loc) ELSE SReject(gs, loc))
    ELSE SReject(gs, loc)

\* ------------------------------------------------------ Superfan: inputs
SuperfanTx(oc, snd, args, accts) ==
    [application_id |-> 1, on_completion |-> oc, sender |-> Addr(snd),
     application_args |-> args, accounts |-> accts]

PointArgs == {U64(0), U64(1), U64(25), U64(100), U64(MaxUint), U72(1)}

MethodArgs(sel) == {<<sel>>} \cup { <<sel, a>> : a \in PointArgs }

ForeignAccounts ==
    {<<>>} \cup { <<Addr(a)>> : a \in SAccounts } \cup {<<Addr("FAN"), Addr("EVE")>>}

SuperfanCreateArgs == {<<>>, <<Addr("ADM")>>, <<Addr("ADM"), Addr("EVE")>>}

\* ----------------------------------------------------- Superfan: actions
SuperfanRecord(kind, tx, r) ==
    [kind |-> kind, tx |-> tx, approved |-> r.ok,
     pre |-> [created |-> sCreated, global |-> sGlobal, local |-> sLocal]]

SuperfanCommit(kind, tx, r) ==
    /\ sGlobal' = IF r.ok THEN r.global ELSE sGlobal
    /\ sLocal' = IF r.ok THEN r.local ELSE sLocal
    /\ sLast' = SuperfanRecord(kind, tx, r)
    /\ sSteps' = sSteps + 1
    /\ UNCHANGED rvars

\* An approved update replaces the approval program and an approved delete
\* removes the application: this program handles no later call.
SuperfanRetired ==
    sLast.kind \in {"update", "delete"} /\ sLast.approved

SuperfanCreate ==
    /\ ~sCreated
    /\ ~SuperfanRetired
    /\ sSteps < SMaxSteps
    /\ \E args \in SuperfanCreateArgs :
         LET tx == [SuperfanTx("NoOp", "CRE", args, <<>>) EXCEPT !.application_id = 0]
             r == superfan_program(NoAdmin, sLocal, tx)
         IN  /\ sCreated' = r.ok
             /\ SuperfanCommit("create", tx, r)

\* Variant: the program is run for an account that is already opted in.
optin_call_rerun(gs, loc, tx) ==
    superfan_program(gs, loc, tx)

\* An OptIn application call: the ledger rejects it for an account that is
\* already opted in, before the program runs; otherwise it allocates the
\* sender's local state and runs the program.
optin_call(gs, loc, tx) ==
    IF loc[tx.sender.s].opted THEN SReject(gs, loc)
    ELSE superfan_program(gs, loc, tx)

SuperfanOptIn ==
    /\ sCreated
    /\ ~SuperfanRetired
    /\ sSteps < SMaxSteps
    /\ \E a \in SAccounts :
         LET tx == SuperfanTx("OptIn", a, <<>>, <<>>)
         IN  SuperfanCommit("optin", tx, optin_call(sGlobal, sLocal, tx))
    /\ UNCHANGED sCreated

\* Close-out: the ledger rejects it for an account that is not opted in and
\* discards the sender's local state when the program approves.
SuperfanCloseOut ==
    /\ sCreated
    /\ ~SuperfanRetired
    /\ sSteps < SMaxSteps
    /\ \E a \in SAccounts :
         LET tx == SuperfanTx("CloseOut", a, <<>>, <<>>)
             r == IF ~sLocal[a].opted THEN SReject(sGlobal, sLocal)
                  ELSE superfan_program(sGlobal, sLocal, tx)
             d == IF r.ok THEN [r EXCEPT !.local[a] = NoLocal] ELSE r
         IN  SuperfanCommit("closeout", tx, d)
    /\ UNCHANGED sCreated

SuperfanAddPoints ==
    /\ sCreated
    /\ ~SuperfanRetired
    /\ sSteps < SMaxSteps
    /\ \E snd \in SAccounts, args \in MethodArgs(Bytes("add_points", 10)),
          accts \in ForeignAccounts :
         LET tx == SuperfanTx("NoOp", snd, args, accts)
         IN  SuperfanCommit("add_points", tx, superfan_program(sGlobal, sLocal, tx))
    /\ UNCHANGED sCreated

SuperfanClaimTier ==
    /\ sCreated
    /\ ~SuperfanRetired
    /\ sSteps < SMaxSteps
    /\ \E snd \in SAccounts, args \in MethodArgs(Bytes("claim_tier", 10)) :
         LET tx == SuperfanTx("NoOp", snd, args, <<>>)
         IN  SuperfanCommit("claim_tier", tx, superfan_program(sGlobal, sLocal, tx))
    /\ UNCHANGED sCreated

\* Selectors and argument lists that handle_noop does not recognise.
SOtherSelectors == {<<>>, <<Bytes("redeem", 6)>>, <<Bytes("redeem", 6), U64(25)>>}

SuperfanOtherNoOp ==
    /\ sCreated
    /\ ~SuperfanRetired
    /\ sSteps < SMaxSteps
    /\ \E snd \in SAccounts, args \in SOtherSelectors :
         LET tx == SuperfanTx("NoOp", snd, args, <<>>)
         IN  SuperfanCommit("noop", tx, superfan_program(sGlobal, sLocal, tx))
    /\ UNCHANGED sCreated

SLifecycleSenders == {"ADM", "CRE", "FAN"}

\* Update: when approved, the programs of the application are replaced and
\* its state is kept.
SuperfanUpdate ==
    /\ sCreated
    /\ ~SuperfanRetired
    /\ sSteps < SMaxSteps
    /\ \E snd \in SLifecycleSenders :
         LET tx == SuperfanTx("UpdateApplication", snd, <<>>, <<>>)
         IN  SuperfanCommit("update", tx, superfan_program(sGlobal, sLocal, tx))
    /\ UNCHANGED sCreated

\* Delete: when approved, the application and its global state are removed.
SuperfanDelete ==
    /\ sCreated
    /\ ~SuperfanRetired
    /\ sSteps < SMaxSteps
    /\ \E snd \in SLifecycleSenders :
         LET tx == SuperfanTx("DeleteApplication", snd, <<>>, <<>>)
             r == superfan_program(sGlobal, sLocal, tx)
         IN  /\ sCreated' = ~r.ok
             /\ SuperfanCommit("delete", tx, r)

SuperfanNext ==
    \/ SuperfanCreate \/ SuperfanOptIn \/ SuperfanCloseOut
    \/ SuperfanAddPoints \/ SuperfanClaimTier
    \/ SuperfanOtherNoOp \/ SuperfanUpdate \/ SuperfanDelete

\* ------------------------------------------------------- specifications
NoCall == [kind |-> "none", tx |-> NoTx, approved |-> FALSE, pays |-> <<>>,
           attempted |-> <<>>, why |-> "none",
           pre |-> [created |-> FALSE, global |-> NoGlobal, bal |-> 0,
                    opted |-> {}]]
SNoCall == [kind |-> "none", tx |-> SuperfanTx("NoOp", "ZERO", <<>>, <<>>),
            approved |-> FALSE,
            pre |-> [created |-> FALSE, global |-> NoAdmin,
                     local |-> [a \in SAccounts |-> NoLocal]]]

Init ==
    /\ rCreated = FALSE
    /\ rCreator = ZeroAddr
    /\ rGlobal = NoGlobal
    /\ appBalance = 0
    /\ rLast = NoCall
    /\ rSteps = 0
    /\ rOptedIn = {}
    /\ sCreated = FALSE
    /\ sGlobal = NoAdmin
    /\ sLocal = [a \in SAccounts |-> NoLocal]
    /\ sLast = SNoCall
    /\ sSteps = 0

Next == RouterNext \/ SuperfanNext

Spec == Init /\ [][Next]_vars
RouterSpec == Init /\ [][RouterNext]_vars
SuperfanSpec == Init /\ [][SuperfanNext]_vars

\* Both applications on one ledger, up to DispatchSteps calls in all, for
\* what the two NoOp dispatchers have in common.
DispatchSteps == 4
DispatchNext ==
    /\ rSteps + sSteps < DispatchSteps
    /\ \/ RouterCreate \/ RouterFund \/ RouterOtherNoOp
       \/ SuperfanCreate \/ SuperfanOptIn \/ SuperfanOtherNoOp
DispatchSpec == Init /\ [][DispatchNext]_vars

\* ================================================================ claims
IsBuy == rLast.kind = "buy"
IsResale == rLast.kind = "resale"
Principal == rLast.tx.gtxn[1].amount
Cfg == rLast.pre.global
SumAmounts(pays) == IF Len(pays) = 3
                    THEN pays[1].amount + pays[2].amount + pays[3].amount
                    ELSE 0

\* C1: an approved "buy" with payment amount A emits exactly three
\* sub-payments, in order to the stored P1, P2, P3, of amounts
\* floor(A*BPS1/10000), floor(A*BPS2/10000), floor(A*BPS3/10000).
C1_BuySplits ==
    (IsBuy /\ rLast.approved) =>
        /\ Len(rLast.pays) = 3
        /\ rLast.pays[1].receiver = Cfg.p1
        /\ rLast.pays[2].receiver = Cfg.p2
        /\ rLast.pays[3].receiver = Cfg.p3
        /\ rLast.pays[1].amount = MulDivFloor(Principal, Cfg.bps1, 10000)
        /\ rLast.pays[2].amount = MulDivFloor(Principal, Cfg.bps2, 10000)
        /\ rLast.pays[3].amount = MulDivFloor(Principal, Cfg.bps3, 10000)

\* Scenario A: 1,000,000 at (7000, 2500, 500) gives (700000, 250000, 50000).
C1_Witness ==
    /\ IsBuy /\ rLast.approved
    /\ Principal = 1000000
    /\ <<Cfg.bps1, Cfg.bps2, Cfg.bps3>> = <<7000, 2500, 500>>
    /\ <<rLast.pays[1].amount, rLast.pays[2].amount, rLast.pays[3].amount>>
         = <<700000, 250000, 50000>>
    /\ <<rLast.pays[1].receiver, rLast.pays[2].receiver, rLast.pays[3].receiver>>
         = <<Addr("ART"), Addr("VEN"), Addr("DAO")>>

\* C2 as stated: for an approved "buy" the splits sum to at most the
\* principal and the shortfall is at most 2 micro-units.
C2_Original ==
    (IsBuy /\ rLast.approved) =>
        /\ SumAmounts(rLast.pays) <= Principal
        /\ Principal - SumAmounts(rLast.pays) <= 2

\* C2 (amended): for an approved "buy" the splits sum to at most the
\* principal; when the weights sum to exactly 10000 the shortfall equals the
\* sum of the per-leg flooring remainders (over 10000) and is at most 2;
\* in general the shortfall exceeds the floor of the unallocated share
\* A*(10000 - BPS1 - BPS2 - BPS3)/10000 by at most 3.
C2_Shortfall ==
    (IsBuy /\ rLast.approved) =>
        LET S == Cfg.bps1 + Cfg.bps2 + Cfg.bps3
            short == Principal - SumAmounts(rLast.pays)
            rem(b) == ((Principal % 10000) * b) % 10000
            unalloc == MulDivFloor(Principal, 10000 - S, 10000)
        IN  /\ Len(rLast.pays) = 3
            /\ short >= 0
            /\ S <= 10000
            /\ short >= unalloc /\ short <= unalloc + 3
            /\ (S = 10000) =>
                  /\ short <= 2
                  /\ short * 10000 = rem(Cfg.bps1) + rem(Cfg.bps2) + rem(Cfg.bps3)

\* An approved "buy" with a dust of 1 at weights summing to 10000.
C2_Witness ==
    /\ IsBuy /\ rLast.approved
    /\ Cfg.bps1 + Cfg.bps2 + Cfg.bps3 = 10000
    /\ Principal = 1000001
    /\ Principal - SumAmounts(rLast.pays) = 1

\* C3: an approved "resale" with payment amount A pays
\* royalty = floor(A*ROY_BPS/10000) and remainder = A - royalty, with
\* 0 <= royalty <= A and royalty + remainder = A; a resale whose royalty
\* would exceed A is rejected.
C3_ResaleExact ==
    IsResale =>
        LET roy == MulDivFloor(Principal, Cfg.roybps, 10000)
        IN  /\ rLast.approved =>
                 /\ Len(rLast.pays) = 2
                 /\ rLast.pays[1].amount = roy
                 /\ 0 <= roy /\ roy <= Principal
                 /\ rLast.pays[2].amount >= 0
                 /\ rLast.pays[1].amount + rLast.pays[2].amount = Principal
            /\ (roy > Principal) => ~rLast.approved /\ rLast.pays = <<>>

\* Scenario C: 1,200,000 at ROY_BPS 500 gives 60,000 and 1,140,000.
C3_Witness ==
    /\ IsResale /\ rLast.approved
    /\ Principal = 1200000 /\ Cfg.roybps = 500
    /\ rLast.pays[1].amount = 60000
    /\ rLast.pays[2].amount = 1140000

\* C4 as stated: an approved "resale" emits the royalty to P1 and then the
\* remainder to the sender of the asset transfer, and no payment goes to
\* P2, P3 or the stored SELLER unless that account is the asset sender.
C4_Original ==
    (IsResale /\ rLast.approved) =>
        /\ Len(rLast.pays) = 2
        /\ rLast.pays[1].receiver = Cfg.p1
        /\ rLast.pays[2].receiver = rLast.tx.gtxn[2].sender
        /\ \A i \in 1..Len(rLast.pays) :
             rLast.pays[i].receiver \in {Cfg.p2, Cfg.p3, Cfg.seller}
               => rLast.pays[i].receiver = rLast.tx.gtxn[2].sender

\* C4 (amended): an approved "resale" emits exactly two sub-payments, the
\* royalty to the stored P1 and then the remainder to the sender of the
\* group's asset transfer; P2, P3 or the stored SELLER receive a payment
\* only when that account is P1 or the asset sender.
C4_ResalePayees ==
    (IsResale /\ rLast.approved) =>
        /\ Len(rLast.pays) = 2
        /\ rLast.pays[1].receiver = Cfg.p1
        /\ rLast.pays[1].amount = MulDivFloor(Principal, Cfg.roybps, 10000)
        /\ rLast.pays[2].receiver = rLast.tx.gtxn[2].sender
        /\ rLast.pays[2].amount = Principal - rLast.pays[1].amount
        /\ \A i \in 1..Len(rLast.pays) :
             rLast.pays[i].receiver \in {Cfg.p2, Cfg.p3, Cfg.seller}
               => rLast.pays[i].receiver \in {Cfg.p1, rLast.tx.gtxn[2].sender}

\* A holder other than the stored SELLER resells and is paid the remainder.
C4_Witness ==
    /\ IsResale /\ rLast.approved
    /\ rLast.tx.gtxn[2].sender = Addr("HOL")
    /\ Cfg.seller = Addr("SEL") /\ Cfg.p1 = Addr("ART")
    /\ Principal = 1200000
    /\ rLast.pays[2] = [receiver |-> Addr("HOL"), amount |-> 1140000, fee |-> 0]

Malformed(tx, gs) ==
    \/ tx.group_size # 3
    \/ tx.gtxn[1].type_enum # "pay"
    \/ tx.gtxn[2].type_enum # "axfer"
    \/ tx.gtxn[2].xfer_asset # gs.asa
    \/ tx.gtxn[2].asset_amount # 1
    \/ tx.gtxn[1].receiver # AppAddr

\* C5: a "buy" or "resale" whose group is malformed (size other than 3,
\* transaction 1 not a payment, transaction 2 not an asset transfer, asset
\* id other than the stored ASA, asset amount other than 1, or payment
\* receiver other than the application address) is rejected, emits no
\* sub-payment and leaves the global state and the balance as they were.
C5_MalformedRejected ==
    ((IsBuy \/ IsResale) /\ Malformed(rLast.tx, Cfg)) =>
        /\ ~rLast.approved
        /\ rLast.pays = <<>>
        /\ rGlobal = Cfg
        /\ appBalance = rLast.pre.bal

\* A funded "buy" that is well-formed except for an asset amount of 2.
C5_Witness ==
    /\ IsBuy /\ ~rLast.approved
    /\ rLast.tx.gtxn[2].asset_amount = 2
    /\ rLast.tx.group_size = 3
    /\ <<Cfg.bps1, Cfg.bps2, Cfg.bps3>> = <<7000, 2500, 500>>
    /\ rLast.pre.bal >= Principal

NonEmptyCloseOrRekey(tx) ==
    \/ tx.gtxn[1].close_remainder_to # ZeroAddr
    \/ tx.gtxn[1].rekey_to # ZeroAddr
    \/ tx.gtxn[2].asset_close_to # ZeroAddr
    \/ tx.gtxn[2].rekey_to # ZeroAddr

EmptiedCloseAndRekey(tx) ==
    [tx EXCEPT !.gtxn[1].close_remainder_to = ZeroAddr,
               !.gtxn[1].rekey_to = ZeroAddr,
               !.gtxn[2].asset_close_to = ZeroAddr,
               !.gtxn[2].rekey_to = ZeroAddr]

\* C6 as stated: a "buy" or "resale" whose payment or asset transfer has a
\* non-empty close-to or rekey-to field is never approved.
C6_Original ==
    ((IsBuy \/ IsResale) /\ NonEmptyCloseOrRekey(rLast.tx)) => ~rLast.approved

\* C6 (amended): the Router does not examine the close-to and rekey-to
\* fields of the group's payment and asset transfer: a "buy" or "resale"
\* carrying a non-empty one is approved or rejected, with the same
\* sub-payments, exactly as the same group with these fields empty.
C6_CloseRekeyIgnored ==
    ((IsBuy \/ IsResale) /\ NonEmptyCloseOrRekey(rLast.tx)) =>
        LET r == router_program(Cfg, rLast.pre.bal, rCreator,
                                EmptiedCloseAndRekey(rLast.tx))
        IN  /\ rLast.approved = r.ok
            /\ rLast.pays = r.pays

\* An approved "buy" whose payment closes the buyer's account to a third
\* party.
C6_Witness ==
    /\ IsBuy /\ rLast.approved
    /\ rLast.tx.gtxn[1].close_remainder_to = Addr("EVE")
    /\ Len(rLast.pays) = 3

\* C7: under a configuration with BPS1+BPS2+BPS3 > 10000, including sums
\* that overflow the word, no "buy" is approved and none emits a payment.
C7_OverAllocatedRejected ==
    (IsBuy /\ Cfg.bps1 + Cfg.bps2 + Cfg.bps3 > 10000) =>
        /\ ~rLast.approved
        /\ rLast.pays = <<>>
        /\ appBalance = rLast.pre.bal

\* A funded, well-shaped "buy" under weights whose sum overflows the word.
C7_Witness ==
    /\ IsBuy /\ ~rLast.approved
    /\ Cfg.bps1 + Cfg.bps2 + Cfg.bps3 > MaxUint
    /\ ~Malformed(rLast.tx, Cfg)
    /\ ~NonEmptyCloseOrRekey(rLast.tx)
    /\ rLast.tx.fee >= 3 * MinTxnFee
    /\ rLast.tx.group_index = 0
    /\ rLast.tx.gtxn[2].sender = Cfg.seller
    /\ rLast.tx.gtxn[2].asset_receiver = rLast.tx.gtxn[1].sender
    /\ Principal = 3
    /\ rLast.pre.bal >= MaxUint

IsAddPoints == sLast.kind = "add_points"
IsClaimTier == sLast.kind = "claim_tier"

\* C8: an "add_points" call whose sender is not the stored admin is
\* rejected and changes the POINTS of no account.
C8_NonAdminRejected ==
    (IsAddPoints /\ sLast.tx.sender # sLast.pre.global.admin) =>
        /\ ~sLast.approved
        /\ \A a \in SAccounts : sLocal[a].pts = sLast.pre.local[a].pts

\* An opted-in non-admin asks for 25 points for itself and for another.
C8_Witness ==
    /\ IsAddPoints /\ ~sLast.approved
    /\ sLast.tx.sender = Addr("EVE")
    /\ sLast.pre.global.admin = Addr("ADM")
    /\ sLast.pre.local["EVE"].opted
    /\ sLast.pre.local["FAN"].opted
    /\ sLast.tx.application_args = <<Bytes("add_points", 10), U64(25)>>
    /\ sLast.tx.accounts = <<Addr("FAN")>>

\* C9: an approved "add_points" with amount n adds n to the POINTS of the
\* first foreign account when one is supplied, leaving the caller's POINTS
\* unchanged if the caller is another account, and adds n to the caller's
\* POINTS only when no foreign account is supplied.
C9_TargetIsForeignAccount ==
    (IsAddPoints /\ sLast.approved) =>
        LET n == sLast.tx.application_args[2].n
            snd == sLast.tx.sender.s
        IN  IF Len(sLast.tx.accounts) > 0
            THEN LET tgt == sLast.tx.accounts[1].s
                 IN  /\ sLocal[tgt].pts = sLast.pre.local[tgt].pts + n
                     /\ (snd # tgt) => sLocal[snd].pts = sLast.pre.local[snd].pts
            ELSE sLocal[snd].pts = sLast.pre.local[snd].pts + n

\* C10: a "claim_tier" whose threshold exceeds the caller's POINTS is
\* rejected and leaves every local value unchanged.
C10_ClaimBelowThreshold ==
    (/\ IsClaimTier
     /\ Len(sLast.tx.application_args) >= 2
     /\ sLast.tx.application_args[2].n > sLast.pre.local[sLast.tx.sender.s].pts) =>
        /\ ~sLast.approved
        /\ sLocal = sLast.pre.local

\* An opted-in caller holding 25 points claims tier 100.
C10_Witness ==
    /\ IsClaimTier /\ ~sLast.approved
    /\ sLast.pre.local[sLast.tx.sender.s].opted
    /\ sLast.pre.local[sLast.tx.sender.s].pts = 25
    /\ sLast.tx.application_args = <<Bytes("claim_tier", 10), U64(100)>>

IsAdminGrant(n, f) ==
    /\ IsAddPoints
    /\ sLast.tx.sender = sLast.pre.global.admin
    /\ sLast.tx.sender # Addr(f)
    /\ sLast.tx.application_args = <<Bytes("add_points", 10), U64(n)>>
    /\ sLast.tx.accounts = <<Addr(f)>>
    /\ sLast.pre.local[f].opted

IsClaimBy(t, f) ==
    /\ IsClaimTier
    /\ sLast.tx.sender = Addr(f)
    /\ sLast.tx.application_args = <<Bytes("claim_tier", 10), U64(t)>>
    /\ sLast.pre.local[f].opted

\* C11: the steps of scenario D. For an opted-in account f other than the
\* admin: an admin add_points(25) naming f as the foreign account when f
\* holds 0 points is approved and makes f's POINTS 25; f's claim_tier(100)
\* with 25 points is rejected; an admin add_points(100) naming f when f
\* holds 25 points is approved and makes f's POINTS 125; f's claim_tier(100)
\* with 125 points is approved and makes f's TIER 100.
C11_ScenarioD ==
    \A f \in SAccounts :
        /\ (IsAdminGrant(25, f) /\ sLast.pre.local[f].pts = 0) =>
               (sLast.approved /\ sLocal[f].pts = 25)
        /\ (IsClaimBy(100, f) /\ sLast.pre.local[f].pts = 25) =>
               ~sLast.approved
        /\ (IsAdminGrant(100, f) /\ sLast.pre.local[f].pts = 25) =>
               (sLast.approved /\ sLocal[f].pts = 125)
        /\ (IsClaimBy(100, f) /\ sLast.pre.local[f].pts = 125) =>
               (sLast.approved /\ sLocal[f].tier = 100)

IsOptIn == sLast.kind = "optin"

C14_TierIsLastClaim ==
    (IsClaimTier /\ sLast.approved) =>
        LET a == sLast.tx.sender.s
        IN  sLocal = [sLast.pre.local EXCEPT
                        ![a].tier = sLast.tx.application_args[2].n]

\* A caller at tier 100 claims tier 25 and ends at tier 25.
C14_Witness ==
    /\ IsClaimTier /\ sLast.approved
    /\ sLast.pre.local[sLast.tx.sender.s].tier = 100
    /\ sLast.tx.application_args = <<Bytes("claim_tier", 10), U64(25)>>
    /\ sLocal[sLast.tx.sender.s].tier = 25

\* C16: an update or delete call on a created Superfan contract is
\* approved exactly when its sender is the stored admin address.
C16_AdminGate ==
    (sLast.kind \in {"update", "delete"}) =>
        (sLast.approved <=> sLast.tx.sender = sLast.pre.global.admin)

\* The creator, who is not the admin, asks for deletion and is refused.
C16_Witness ==
    /\ sLast.kind = "delete" /\ ~sLast.approved
    /\ sLast.tx.sender = Addr("CRE")
    /\ sLast.pre.global.admin = Addr("ADM")
    /\ sCreated

\* C15: an update or delete call on a created Router is approved exactly
\* when its sender is the creator of the application, whatever its
\* arguments.
C15_CreatorGate ==
    (rLast.kind \in {"update", "delete"}) =>
        (rLast.approved <=> rLast.tx.sender = rCreator)

\* The stored SELLER, who is not the creator, asks for deletion with an
\* argument and is refused.
C15_Witness ==
    /\ rLast.kind = "delete" /\ ~rLast.approved
    /\ rLast.tx.sender = rLast.pre.global.seller
    /\ rLast.tx.sender # rCreator
    /\ rLast.tx.application_args # <<>>
    /\ rCreated

RouterSelectors == {Bytes("buy", 3), Bytes("resale", 6)}
SuperfanSelectors == {Bytes("add_points", 10), Bytes("claim_tier", 10)}

NoSelector(tx, sels) ==
    /\ tx.application_id # 0
    /\ tx.on_completion = "NoOp"
    /\ (tx.application_args = <<>> \/ tx.application_args[1] \notin sels)

\* C17: a NoOp call to either contract that carries no argument, or whose
\* first argument is not one of that contract's selectors, is rejected,
\* changes no global or local state and emits no sub-payment.
C17_UnknownSelectorRejected ==
    /\ (rLast.kind # "none" /\ NoSelector(rLast.tx, RouterSelectors)) =>
          /\ ~rLast.approved
          /\ rLast.pays = <<>>
          /\ rGlobal = rLast.pre.global
          /\ appBalance = rLast.pre.bal
    /\ (sLast.kind # "none" /\ NoSelector(sLast.tx, SuperfanSelectors)) =>
          /\ ~sLast.approved
          /\ sGlobal = sLast.pre.global
          /\ sLocal = sLast.pre.local

\* Both contracts have refused a call: the Router an otherwise valid
\* purchase group under the selector "refund", the Superfan contract a
\* call without arguments.
C17_Witness ==
    /\ rLast.kind = "noop" /\ ~rLast.approved
    /\ rLast.tx.application_args = <<Bytes("refund", 6)>>
    /\ rLast.tx.group_size = 3
    /\ rCreated
    /\ sLast.kind = "noop" /\ ~sLast.approved
    /\ sLast.tx.application_args = <<>>
    /\ sCreated

\* C18: a creation call is approved only with nine arguments, which it
\* stores in the order P1, P2, P3, BPS1, BPS2, BPS3, ROY_BPS, ASA, SELLER; a
\* rejected creation stores nothing; creation happens once; no funding,
\* buy, resale, other NoOp, opt-in or close-out call and no rejected call
\* changes a stored value.
C18_WrittenOnceAtCreation ==
    /\ (rLast.kind = "create") =>
          LET a == rLast.tx.application_args
          IN  /\ ~rLast.pre.created
              /\ rLast.pre.global = NoGlobal
              /\ (Len(a) # 9) => ~rLast.approved
              /\ rCreated = rLast.approved
              /\ IF rLast.approved
                 THEN rGlobal = [p1 |-> a[1], p2 |-> a[2], p3 |-> a[3],
                                 bps1 |-> a[4].n, bps2 |-> a[5].n, bps3 |-> a[6].n,
                                 roybps |-> a[7].n, asa |-> a[8].n, seller |-> a[9]]
                 ELSE rGlobal = NoGlobal
    /\ (\/ rLast.kind \in {"fund", "buy", "resale", "noop", "optin", "closeout"}
        \/ (rLast.kind # "none" /\ ~rLast.approved)) =>
          rGlobal = rLast.pre.global

\* A creation with nine arguments, four different addresses among them, has
\* been approved.
C18_Witness ==
    /\ rLast.kind = "create" /\ rLast.approved
    /\ Len(rLast.tx.application_args) = 9
    /\ rGlobal.p1 = Addr("ART") /\ rGlobal.p2 = Addr("VEN")
    /\ rGlobal.p3 = Addr("DAO") /\ rGlobal.seller = Addr("SEL")
    /\ rGlobal.bps1 = 7000 /\ rGlobal.bps2 = 2500 /\ rGlobal.bps3 = 500
    /\ rGlobal.roybps = 500 /\ rGlobal.asa = TicketAsa

\* C19: in every created Router the four stored addresses are 32 bytes
\* long, BPS1 + BPS2 + BPS3 <= 10000 and the stored ASA id is not 0.
C19_CreationValidated ==
    rCreated =>
        /\ rGlobal.p1.len = 32 /\ rGlobal.p2.len = 32
        /\ rGlobal.p3.len = 32 /\ rGlobal.seller.len = 32
        /\ rGlobal.bps1 + rGlobal.bps2 + rGlobal.bps3 <= BpsDenom
        /\ rGlobal.asa # 0

\* C20: an approved "buy" declares a fee of at least 3 minimum fees, an
\* approved "resale" a fee of at least 2 minimum fees, and every inner
\* payment of a call declares a fee of 0.
C20_FeeSufficiency ==
    /\ (IsBuy /\ rLast.approved) => rLast.tx.fee >= 3 * MinTxnFee
    /\ (IsResale /\ rLast.approved) => rLast.tx.fee >= 2 * MinTxnFee
    /\ \A i \in DOMAIN rLast.pays : rLast.pays[i].fee = 0

\* A resale declaring exactly 2 minimum fees has been approved and has
\* made its two payments.
C20_Witness ==
    /\ IsResale /\ rLast.approved
    /\ rLast.tx.fee = 2 * MinTxnFee
    /\ Len(rLast.pays) = 2

\* The last call left no trace besides its record.
RouterNoEffect ==
    /\ ~rLast.approved
    /\ rLast.pays = <<>>
    /\ rGlobal = rLast.pre.global
    /\ appBalance = rLast.pre.bal
    /\ rOptedIn = rLast.pre.opted

\* What the three payments of a buy of the last call's principal add up to.
BuyTotal ==
    MulDivFloor(Principal, Cfg.bps1, BpsDenom)
      + MulDivFloor(Principal, Cfg.bps2, BpsDenom)
      + MulDivFloor(Principal, Cfg.bps3, BpsDenom)

\* C21: a "buy" or "resale" whose payments the application account, as it
\* stands when the call runs (the group's own payment not yet credited),
\* cannot cover is rejected: no payment is made, the group's payment is not
\* credited and every state value is as before the group.
C21_UnderfundedRejected ==
    /\ (IsBuy /\ valid_bps(Cfg) = 1 /\ BuyTotal > rLast.pre.bal) => RouterNoEffect
    /\ (IsResale /\ Cfg.roybps <= BpsDenom /\ Principal > rLast.pre.bal) =>
          RouterNoEffect

\* A well-formed purchase at 1400 on a balance of 1000: the first payment
\* of 980 was submitted, the second could not be covered, nothing remains.
C21_Witness ==
    /\ IsBuy /\ buy_asserts(Cfg, rLast.tx)
    /\ Principal = 1400 /\ rLast.pre.bal = 1000
    /\ Len(rLast.attempted) = 1 /\ rLast.why = "balance"
    /\ RouterNoEffect

\* C22: an approved "buy" is at group index 0, its transaction 1 is a
\* payment and its transaction 2 an asset transfer of exactly 1 unit of the
\* stored ASA, sent by the stored SELLER and received by the sender of the
\* payment.
C22_BuyerSymmetry ==
    (IsBuy /\ rLast.approved) =>
        /\ rLast.tx.group_index = 0
        /\ rLast.tx.gtxn[1].type_enum = "pay"
        /\ rLast.tx.gtxn[2].type_enum = "axfer"
        /\ rLast.tx.gtxn[2].asset_amount = 1
        /\ rLast.tx.gtxn[2].xfer_asset = Cfg.asa
        /\ rLast.tx.gtxn[2].sender = Cfg.seller
        /\ rLast.tx.gtxn[2].asset_receiver = rLast.tx.gtxn[1].sender

\* An approved purchase at 1000000 whose ticket went to its payer.
C22_Witness ==
    /\ IsBuy /\ rLast.approved
    /\ Principal = 1000000
    /\ rLast.tx.gtxn[1].sender = Addr("BUY")
    /\ rLast.tx.gtxn[2].asset_receiver = Addr("BUY")
    /\ Len(rLast.pays) = 3

\* C23: a "buy" or "resale" that fails after it has submitted a payment
\* fails for want of balance and for no other reason.
C23_OnlyBalanceFailsLate ==
    ((IsBuy \/ IsResale) /\ ~rLast.approved /\ Len(rLast.attempted) > 0) =>
        rLast.why = "balance"

RouterOptOrClose == rLast.kind \in {"optin", "closeout"}

C30_BalanceNeverShrinks ==
    /\ (IsBuy /\ rLast.approved) =>
          /\ Principal >= SumAmounts(rLast.pays)
          /\ appBalance = rLast.pre.bal + (Principal - SumAmounts(rLast.pays))
    /\ (IsResale /\ rLast.approved) => appBalance = rLast.pre.bal

\* A purchase at 1000001 under weights (7000, 2500, 500) has left 1 behind.
C30_Witness ==
    /\ IsBuy /\ rLast.approved
    /\ Principal = 1000001
    /\ Cfg.bps1 = 7000 /\ Cfg.bps2 = 2500 /\ Cfg.bps3 = 500
    /\ SumAmounts(rLast.pays) = 1000000
    /\ appBalance = rLast.pre.bal + 1

SuperfanNoEffect ==
    ~sLast.approved /\ sLocal = sLast.pre.local /\ sGlobal = sLast.pre.global

\* C25: an "add_points" or "claim_tier" call with fewer than 2 arguments,
\* or whose amount or threshold is 0, is rejected and changes the POINTS
\* and TIER of no account.
C25_ShortOrZeroRejected ==
    ((IsAddPoints \/ IsClaimTier)
       /\ (\/ Len(sLast.tx.application_args) < 2
           \/ sLast.tx.application_args[2] = U64(0))) =>
        SuperfanNoEffect

\* The opted-in admin grants itself 0 points and is refused.
C25_Witness ==
    /\ IsAddPoints /\ ~sLast.approved
    /\ sLast.tx.sender = sLast.pre.global.admin
    /\ sLast.pre.local[sLast.tx.sender.s].opted
    /\ sLast.tx.application_args = <<Bytes("add_points", 10), U64(0)>>

\* C26: a creation call without argument is rejected; an approved one
\* stores its first argument as the admin and happens on a contract not yet
\* created; no add_points, claim_tier, other NoOp, opt-in or close-out call
\* and no rejected call changes the admin; no step at all changes the admin
\* of a created contract.
C26_AdminWrittenOnce ==
    /\ [](sLast.kind = "create" =>
            (/\ ~sLast.pre.created
             /\ ((sLast.tx.application_args = <<>>) => ~sLast.approved)
             /\ (sCreated <=> sLast.approved)
             /\ (sLast.approved => sGlobal.admin = sLast.tx.application_args[1])))
    /\ []((\/ sLast.kind \in {"add_points", "claim_tier", "noop", "optin", "closeout"}
           \/ (sLast.kind # "none" /\ ~sLast.approved)) =>
             sGlobal = sLast.pre.global)
    /\ [][sCreated => sGlobal' = sGlobal]_vars

\* Calls after the creation, the last of them an approved claim, the admin
\* is still the first creation argument and not the sender of the creation.
C26_Witness ==
    /\ sCreated
    /\ sGlobal.admin = Addr("ADM")
    /\ sSteps >= 3
    /\ IsClaimTier /\ sLast.approved

\* C27: every opted-in account has TIER <= POINTS.
C27_TierWithinPoints ==
    \A a \in SAccounts : sLocal[a].opted => sLocal[a].tier <= sLocal[a].pts

\* An account has claimed the tier equal to all its points and then
\* received more.
C27_Witness ==
    \E a \in SAccounts :
        /\ sLocal[a].opted
        /\ sLocal[a].tier = 100
        /\ sLocal[a].pts = 101

\* C28: an approved "add_points" changes nothing but the POINTS of one
\* account, and an approved "claim_tier" nothing but the TIER of its
\* sender.
C28_SingleFieldWritten ==
    /\ (IsAddPoints /\ sLast.approved) =>
          \E t \in SAccounts :
              sLocal = [sLast.pre.local EXCEPT ![t].pts = sLocal[t].pts]
    /\ (IsClaimTier /\ sLast.approved) =>
          LET a == sLast.tx.sender.s
          IN  sLocal = [sLast.pre.local EXCEPT ![a].tier = sLocal[a].tier]
    /\ ((IsAddPoints \/ IsClaimTier) /\ sLast.approved) => sGlobal = sLast.pre.global

\* A grant of 1 to an account at tier 100, with another account opted in,
\* has left the tier and the other account alone.
C28_Witness ==
    /\ IsAddPoints /\ sLast.approved
    /\ \E t \in SAccounts :
         /\ sLast.pre.local[t].tier = 100
         /\ sLocal[t].tier = 100
         /\ sLocal[t].pts = sLast.pre.local[t].pts + 1

\* C29: an "add_points" whose amount added to the POINTS of the account it
\* credits exceeds the largest unsigned word is rejected and changes
\* nothing.
C29_OverflowRejected ==
    (/\ IsAddPoints
     /\ Len(sLast.tx.application_args) >= 2
     /\ sLast.pre.local[add_points_target(sLast.tx).s].pts
          + sLast.tx.application_args[2].n > MaxUint) =>
        SuperfanNoEffect

\* The admin, holding the largest number of points, grants itself 1 more.
C29_Witness ==
    /\ IsAddPoints /\ ~sLast.approved
    /\ sLast.tx.sender = sLast.pre.global.admin
    /\ sLast.pre.local[sLast.tx.sender.s].pts = MaxUint
    /\ sLast.tx.application_args = <<Bytes("add_points", 10), U64(1)>>
    /\ sLocal[sLast.tx.sender.s].pts = MaxUint

====
